---- MODULE Spec2Model ----
(***************************************************************************)
(* Vendor management portal: the useVendors hook (orchestration layer)     *)
(* driving one of two backends, the Google Sheets service and the          *)
(* localStorage service.  Handlers are split at their await points; the    *)
(* code between two awaits is one atomic action.                           *)
(*                                                                         *)
(* Spec          the hook called directly, over the common store contents  *)
(* AnyStoreSpec  the same over every content the stores can hold           *)
(* FormSpec      the hook called by the onboarding and the update form     *)
(* PureSpec      the conversions of utils/validation and the factory       *)
(* DeleteViewSpec  the hook driven by the VendorDelete view                *)
(* TwoClientSpec   two clients of the Sheets service on one sheet          *)
(***************************************************************************)
EXTENDS Integers, Sequences, FiniteSets, TLC

VARIABLES backend, sheet, localStorage,
          vendors, isLoading, isInitialLoading, error, alert,
          mounted, ops, calls, ev, pure, view, clients

vars == <<backend, sheet, localStorage, vendors, isLoading, isInitialLoading,
          error, alert, mounted, ops, calls, ev, pure, view, clients>>

----------------------------------------------------------------------------
(* Bounds of the model *)

MaxOps == 2

MaxCalls == 2

MaxProducts == 2

YearsMax == 50

----------------------------------------------------------------------------
(* JavaScript values *)

Null == "<null>"

Undefined == "<undefined>"

NoAlert == [type |-> Null, message |-> ""]

Or(s, fallback) == IF s = "" \/ s = Null \/ s = Undefined THEN fallback ELSE s

DigitStr == <<"0", "1", "2", "3", "4", "5", "6", "7", "8", "9">>

RECURSIVE NumToStr(_)
NumToStr(n) == IF n < 10 THEN DigitStr[n + 1]
               ELSE NumToStr(n \div 10) \o DigitStr[(n % 10) + 1]

YearStrings == [n \in 0..YearsMax |-> NumToStr(n)]

(* Number(s) || 0 *)
ToNumberOrZero(s) ==
    IF \E n \in 0..YearsMax : YearStrings[n] = s
    THEN CHOOSE n \in 0..YearsMax : YearStrings[n] = s
    ELSE 0

----------------------------------------------------------------------------
(* Record model *)

Vendor(c, b, p, y, d, a) ==
    [CompanyName |-> c, BusinessType |-> b, Products |-> p,
     YearsInBusiness |-> y, OnboardingDate |-> d, AdditionalInfo |-> a]

SEED_DATA ==
    << Vendor("Acme Electronics", "Manufacturer", "Electronics, Software", 15,
              "2024-01-15", "Primary electronics supplier"),
       Vendor("Global Distributors Inc.", "Distributor",
              "Electronics, Apparel, Groceries", 25, "2023-06-20",
              "International distribution network"),
       Vendor("FreshMart Wholesale", "Wholesaler", "Groceries", 8,
              "2024-03-10", "Organic and fresh produce specialist"),
       Vendor("TechSoft Solutions", "Service Provider", "Software", 5,
              "2024-07-01", "Cloud-based SaaS solutions"),
       Vendor("StyleHub Retail", "Retailer", "Apparel, Other", 12,
              "2023-11-30", "Premium fashion retail chain") >>

HEADERS == <<"CompanyName", "BusinessType", "Products", "YearsInBusiness",
             "OnboardingDate", "AdditionalInfo">>

(* Records found in the stores at the start. *)
VA == Vendor("Acme Electronics", "Retailer", "Software", 3, "2025-01-01", "")

VA2 == Vendor("Acme Electronics", "Wholesaler", "", 0, "2025-03-03", "second")

VZ == Vendor("Zeta Corp", "Manufacturer", "Other", 50, "2024-12-31", "old")

(* The record and the names the consumer passes to the operations. *)
VB == Vendor("Zeta Corp", "Distributor", "Apparel, Other", 7, "2025-02-02", "note")

InputVendors == {VB}

InputNames == {"Acme Electronics", "Zeta Corp"}

FindIndex(list, name) ==
    IF \E i \in 1..Len(list) : list[i].CompanyName = name
    THEN (CHOOSE i \in 1..Len(list) :
            /\ list[i].CompanyName = name
            /\ \A j \in 1..(i - 1) : list[j].CompanyName # name) - 1
    ELSE -1

RECURSIVE FilterOut(_, _)
FilterOut(list, name) ==
    IF list = <<>> THEN <<>>
    ELSE IF Head(list).CompanyName # name
         THEN <<Head(list)>> \o FilterOut(Tail(list), name)
         ELSE FilterOut(Tail(list), name)

----------------------------------------------------------------------------
(* Strings: trim, toLowerCase, split and join, character by character *)

Whitespace == {" ", "\t", "\n"}

RECURSIVE TrimStart(_)
TrimStart(str) ==
    IF Len(str) > 0 /\ Head(str) \in Whitespace THEN TrimStart(Tail(str)) ELSE str

RECURSIVE TrimEnd(_)
TrimEnd(str) ==
    IF Len(str) > 0 /\ SubSeq(str, Len(str), Len(str)) \in Whitespace
    THEN TrimEnd(SubSeq(str, 1, Len(str) - 1))
    ELSE str

Trim(str) == TrimEnd(TrimStart(str))

UpperCase == <<"A", "B", "C", "D", "E", "F", "G", "H", "I", "J", "K", "L", "M",
               "N", "O", "P", "Q", "R", "S", "T", "U", "V", "W", "X", "Y", "Z">>

LowerCase == <<"a", "b", "c", "d", "e", "f", "g", "h", "i", "j", "k", "l", "m",
               "n", "o", "p", "q", "r", "s", "t", "u", "v", "w", "x", "y", "z">>

LowerChar(c) ==
    IF \E i \in 1..26 : UpperCase[i] = c
    THEN LowerCase[CHOOSE i \in 1..26 : UpperCase[i] = c]
    ELSE c

RECURSIVE ToLowerCase(_)
ToLowerCase(str) ==
    IF Len(str) = 0 THEN ""
    ELSE LowerChar(Head(str)) \o ToLowerCase(Tail(str))

(* Position of the first occurrence of sep in str from position i on, or 0 *)
RECURSIVE IndexOf(_, _, _)
IndexOf(str, sep, i) ==
    IF i + Len(sep) - 1 > Len(str) THEN 0
    ELSE IF SubSeq(str, i, i + Len(sep) - 1) = sep THEN i
    ELSE IndexOf(str, sep, i + 1)

(* str.split(sep), for a separator that is not empty *)
RECURSIVE Split(_, _)
Split(str, sep) ==
    LET i == IndexOf(str, sep, 1) IN
    IF i = 0 THEN <<str>>
    ELSE <<SubSeq(str, 1, i - 1)>> \o Split(SubSeq(str, i + Len(sep), Len(str)), sep)

(* list.join(sep) *)
RECURSIVE Join(_, _)
Join(list, sep) ==
    IF list = <<>> THEN ""
    ELSE IF Len(list) = 1 THEN list[1]
    ELSE list[1] \o sep \o Join(Tail(list), sep)

(* list.filter(Boolean) on a list of strings *)
RECURSIVE FilterBoolean(_)
FilterBoolean(list) ==
    IF list = <<>> THEN <<>>
    ELSE IF Head(list) = "" THEN FilterBoolean(Tail(list))
    ELSE <<Head(list)>> \o FilterBoolean(Tail(list))

Truthy(str) == str \notin {"", Null, Undefined}

----------------------------------------------------------------------------
(* Form data and its conversions (constants/vendor, utils/validation) *)

BUSINESS_TYPES == <<"Manufacturer", "Distributor", "Wholesaler", "Retailer",
                    "Service Provider">>

PRODUCTS == <<"Electronics", "Apparel", "Groceries", "Software", "Other">>

FormData(c, b, p, y, d, a) ==
    [companyName |-> c, businessType |-> b, products |-> p,
     yearsInBusiness |-> y, onboardingDate |-> d, additionalInfo |-> a]

(* validateMandatoryFields(formData).isValid *)
validateMandatoryFields(formData) ==
    /\ Trim(formData.companyName) # ""
    /\ formData.businessType # ""
    /\ formData.onboardingDate # ""

isDuplicateVendor(companyName, existingVendors) ==
    \E k \in 1..Len(existingVendors) :
        Trim(ToLowerCase(existingVendors[k].CompanyName))
            = Trim(ToLowerCase(companyName))

(* formDataToVendor joining the products without the blank *)
formDataToVendorTight(formData) ==
    [CompanyName |-> Trim(formData.companyName),
     BusinessType |-> formData.businessType,
     Products |-> Join(formData.products, ","),
     YearsInBusiness |-> formData.yearsInBusiness,
     OnboardingDate |-> formData.onboardingDate,
     AdditionalInfo |-> Trim(formData.additionalInfo)]

formDataToVendor(formData) ==
    [CompanyName |-> Trim(formData.companyName),
     BusinessType |-> formData.businessType,
     Products |-> Join(formData.products, ", "),
     YearsInBusiness |-> formData.yearsInBusiness,
     OnboardingDate |-> formData.onboardingDate,
     AdditionalInfo |-> Trim(formData.additionalInfo)]

(* vendorToFormData splitting the products at the comma alone *)
vendorToFormDataAtComma(vendor) ==
    [companyName |-> vendor.CompanyName,
     businessType |-> vendor.BusinessType,
     products |-> IF Truthy(vendor.Products)
                  THEN FilterBoolean(Split(vendor.Products, ","))
                  ELSE <<>>,
     yearsInBusiness |-> vendor.YearsInBusiness,
     onboardingDate |-> vendor.OnboardingDate,
     additionalInfo |-> Or(vendor.AdditionalInfo, "")]

vendorToFormData(vendor) ==
    [companyName |-> vendor.CompanyName,
     businessType |-> vendor.BusinessType,
     products |-> IF Truthy(vendor.Products)
                  THEN FilterBoolean(Split(vendor.Products, ", "))
                  ELSE <<>>,
     yearsInBusiness |-> vendor.YearsInBusiness,
     onboardingDate |-> vendor.OnboardingDate,
     additionalInfo |-> Or(vendor.AdditionalInfo, "")]

----------------------------------------------------------------------------
(* createVendorService: the backend chosen from the environment *)

DefaultWorksheet == "Vendors"

(* the factory taking the remote backend when either setting is present *)
createVendorServiceEither(env) ==
    IF Truthy(env.apiKey) \/ Truthy(env.spreadsheetId)
    THEN [kind |-> "sheets", apiKey |-> env.apiKey,
          spreadsheetId |-> env.spreadsheetId,
          worksheetName |-> Or(env.worksheetName, DefaultWorksheet)]
    ELSE [kind |-> "local"]

createVendorService(env) ==
    IF Truthy(env.apiKey) /\ Truthy(env.spreadsheetId)
    THEN [kind |-> "sheets", apiKey |-> env.apiKey,
          spreadsheetId |-> env.spreadsheetId,
          worksheetName |-> Or(env.worksheetName, DefaultWorksheet)]
    ELSE [kind |-> "local"]

----------------------------------------------------------------------------
(* Envelope returned by every backend operation (SheetsApiResponse) *)

Success(data) == [success |-> TRUE, data |-> data, error |-> Undefined]

Failure(msg) == [success |-> FALSE, data |-> <<>>, error |-> msg]

(* A promise that rejects with an error instead of resolving to an        *)
(* envelope.                                                              *)
Rejected(message) ==
    [success |-> FALSE, data |-> <<>>, error |-> message, rejected |-> TRUE]

IsRejected(env) == "rejected" \in DOMAIN env

(* An operation without its try/catch: the error thrown inside leaves it. *)
Uncaught(message) == Rejected(message)

(* catch (error) { return { success: false, error: error.message } }      *)
Caught(message) == Failure(message)

(* { success: true, data: null }: the envelope carries no list *)
SuccessNoData ==
    [success |-> TRUE, data |-> <<>>, error |-> Undefined, noData |-> TRUE]

HasData(env) == "noData" \notin DOMAIN env

NotFoundMsg(name) == "Vendor \"" \o name \o "\" not found"

(* Outcomes of one HTTP exchange or one storage access: it works, the    *)
(* server answers with a non-OK status, or the call throws an Error whose *)
(* message is empty.                                                      *)
Faults == {"ok", "http", "throwEmpty"}

(* A GET can also be answered OK with a body that response.json() rejects. *)
ReadFaults == Faults \cup {"badBody"}

BadBodyMsg == "Unexpected token '<', \"<!DOCTYPE \"... is not valid JSON"

StatusText == "Internal Server Error"

----------------------------------------------------------------------------
(* Google Sheets backend: the sheet is a list of rows, row 1 the header.  *)
(* The values API returns and stores rows without trailing empty cells.   *)

Max(a, b) == IF a >= b THEN a ELSE b

Cell(row, i) == IF i <= Len(row) THEN row[i] ELSE ""

RECURSIVE TrimRow(_)
TrimRow(row) ==
    IF row # <<>> /\ row[Len(row)] = ""
    THEN TrimRow(SubSeq(row, 1, Len(row) - 1))
    ELSE row

RowAt(sh, i) == IF i <= Len(sh) THEN sh[i] ELSE <<>>

(* A cell of the request that is null (an undefined field serialised by  *)
(* JSON.stringify) is skipped: the stored cell keeps its value.           *)
OverlayRow(old, new) ==
    TrimRow([j \in 1..Max(Len(old), Len(new)) |->
               IF j <= Len(new) /\ new[j] # Undefined THEN new[j]
               ELSE Cell(old, j)])

(* PUT values/{range}: writes the given rows from row `first` on and     *)
(* touches no cell outside the rows it was given.                         *)
ApiPut(sh, first, values) ==
    [i \in 1..Max(Len(sh), first + Len(values) - 1) |->
        IF i >= first /\ i < first + Len(values)
        THEN OverlayRow(RowAt(sh, i), values[i - first + 1])
        ELSE RowAt(sh, i)]

(* POST values/{range}:append: one more row after the last row.           *)
ApiAppend(sh, values) == sh \o [i \in 1..Len(values) |-> OverlayRow(<<>>, values[i])]

VendorRow(v) ==
    <<v.CompanyName, v.BusinessType, v.Products, NumToStr(v.YearsInBusiness),
      v.OnboardingDate, v.AdditionalInfo>>

Field(headers, row, f) ==
    IF \E i \in 1..Len(headers) : headers[i] = f
    THEN LET i == CHOOSE k \in 1..Len(headers) :
                    /\ headers[k] = f
                    /\ \A m \in (k + 1)..Len(headers) : headers[m] # f
         IN Or(Cell(row, i), "")
    ELSE Undefined

RowToVendor(headers, row) ==
    [CompanyName |-> Field(headers, row, "CompanyName"),
     BusinessType |-> Field(headers, row, "BusinessType"),
     Products |-> Field(headers, row, "Products"),
     YearsInBusiness |-> ToNumberOrZero(Field(headers, row, "YearsInBusiness")),
     OnboardingDate |-> Field(headers, row, "OnboardingDate"),
     AdditionalInfo |-> Field(headers, row, "AdditionalInfo")]

(* fetchVendors mapping every row, the header row included *)
SheetsFetchHeaderAsRecord(rsp) ==
    IF rsp.fault = "http"
    THEN Caught("Google Sheets API error: 500 " \o StatusText)
    ELSE IF rsp.fault = "throwEmpty" THEN Caught("")
    ELSE IF rsp.fault = "badBody" THEN Caught(BadBodyMsg)
    ELSE LET rows == rsp.values IN
         IF Len(rows) < 1 THEN Success(<<>>)
         ELSE Success([i \in 1..Len(rows) |-> RowToVendor(rows[1], rows[i])])

(* fetchVendors of the Sheets service, given the outcome of its GET.      *)
SheetsFetchVendors(rsp) ==
    IF rsp.fault = "http"
    THEN Caught("Google Sheets API error: 500 " \o StatusText)
    ELSE IF rsp.fault = "throwEmpty" THEN Caught("")
    ELSE IF rsp.fault = "badBody" THEN Caught(BadBodyMsg)
    ELSE LET rows == rsp.values IN
         IF Len(rows) <= 1 THEN Success(<<>>)
         ELSE Success([i \in 1..(Len(rows) - 1) |-> RowToVendor(rows[1], rows[i + 1])])

WriteFailure(rsp, what) ==
    IF rsp.fault = "http" THEN Caught("Failed to " \o what \o " vendor: " \o StatusText)
    ELSE Caught("")

----------------------------------------------------------------------------
(* localStorage backend: the value under STORAGE_KEY is absent, the empty  *)
(* text, a text that JSON.parse rejects, the JSON text of a list of       *)
(* vendors, or the JSON text null.                                        *)

LsNull == [kind |-> "null", val |-> <<>>]

LsEmpty == [kind |-> "empty", val |-> <<>>]

LsGarbage == [kind |-> "garbage", val |-> <<>>]

LsJsonNull == [kind |-> "jsonNull", val |-> <<>>]

JSONstringify(list) == [kind |-> "json", val |-> list]

(* The same read with the seed written back after a failed parse too. *)
getStoredVendorsReseeding(ls) ==
    IF ls.kind = "json" THEN [list |-> ls.val, isList |-> TRUE, ls |-> ls]
    ELSE IF ls.kind = "jsonNull" THEN [list |-> <<>>, isList |-> FALSE, ls |-> ls]
    ELSE [list |-> SEED_DATA, isList |-> TRUE, ls |-> JSONstringify(SEED_DATA)]

(* getStoredVendors: the value returned (a list, or null when the text    *)
(* parses to null), and the storage after the read.  `if (stored)` takes  *)
(* the absent value and the empty text alike.                             *)
getStoredVendors(ls) ==
    IF ls.kind = "json" THEN [list |-> ls.val, isList |-> TRUE, ls |-> ls]
    ELSE IF ls.kind = "jsonNull" THEN [list |-> <<>>, isList |-> FALSE, ls |-> ls]
    ELSE IF ls.kind = "garbage" THEN [list |-> SEED_DATA, isList |-> TRUE, ls |-> ls]
    ELSE [list |-> SEED_DATA, isList |-> TRUE, ls |-> JSONstringify(SEED_DATA)]

saveVendors(list) == JSONstringify(list)

(* A storage access that throws (f = "quota") is caught by the operation. *)
LocalFaults == {"ok", "quota"}

LocalFault(f) == Caught("QuotaExceededError")

(* vendors.push / findIndex / filter on null throws a TypeError, caught.  *)
NullAccess(method) ==
    Caught("Cannot read properties of null (reading '" \o method \o "')")

LocalUpsertVendor(ls, originalName, vendor, f) ==
    IF f # "ok" THEN [env |-> LocalFault(f), ls |-> ls]
    ELSE LET g == getStoredVendors(ls)
             index == FindIndex(g.list, originalName)
         IN IF ~g.isList THEN [env |-> NullAccess("findIndex"), ls |-> g.ls]
            ELSE [env |-> Success(<<vendor>>),
                  ls |-> saveVendors(IF index = -1 THEN Append(g.list, vendor)
                                     ELSE [g.list EXCEPT ![index + 1] = vendor])]

LocalDeleteUnchecked(ls, companyName, f) ==
    IF f # "ok" THEN [env |-> LocalFault(f), ls |-> ls]
    ELSE LET g == getStoredVendors(ls) IN
         IF ~g.isList THEN [env |-> NullAccess("filter"), ls |-> g.ls]
         ELSE [env |-> Success(<<>>), ls |-> saveVendors(FilterOut(g.list, companyName))]

(* addVendor that refuses a record whose name is already stored *)
LocalAddUnique(ls, vendor, f) ==
    IF f # "ok" THEN [env |-> LocalFault(f), ls |-> ls]
    ELSE LET g == getStoredVendors(ls) IN
         IF ~g.isList THEN [env |-> NullAccess("push"), ls |-> g.ls]
         ELSE IF FindIndex(g.list, vendor.CompanyName) # -1
         THEN [env |-> Failure("Vendor already exists"), ls |-> g.ls]
         ELSE [env |-> Success(<<vendor>>), ls |-> saveVendors(Append(g.list, vendor))]

(* updateVendor replacing every record of the name *)
LocalUpdateAll(ls, originalName, vendor, f) ==
    IF f # "ok" THEN [env |-> LocalFault(f), ls |-> ls]
    ELSE LET g == getStoredVendors(ls)
             index == FindIndex(g.list, originalName)
         IN IF ~g.isList THEN [env |-> NullAccess("findIndex"), ls |-> g.ls]
            ELSE IF index = -1
            THEN [env |-> Failure(NotFoundMsg(originalName)), ls |-> g.ls]
            ELSE [env |-> Success(<<vendor>>),
                  ls |-> saveVendors([k \in 1..Len(g.list) |->
                            IF g.list[k].CompanyName = originalName THEN vendor
                            ELSE g.list[k]])]

(* Each local operation: the envelope returned and the storage left.      *)
LocalFetchVendors(ls, f) ==
    IF f # "ok" THEN [env |-> LocalFault(f), ls |-> ls]
    ELSE LET g == getStoredVendors(ls) IN
         [env |-> IF g.isList THEN Success(g.list) ELSE SuccessNoData, ls |-> g.ls]

LocalAddVendor(ls, vendor, f) ==
    IF f # "ok" THEN [env |-> LocalFault(f), ls |-> ls]
    ELSE LET g == getStoredVendors(ls) IN
         IF ~g.isList THEN [env |-> NullAccess("push"), ls |-> g.ls]
         ELSE [env |-> Success(<<vendor>>), ls |-> saveVendors(Append(g.list, vendor))]

LocalUpdateVendor(ls, originalName, vendor, f) ==
    IF f # "ok" THEN [env |-> LocalFault(f), ls |-> ls]
    ELSE LET g == getStoredVendors(ls)
             index == FindIndex(g.list, originalName)
         IN IF ~g.isList THEN [env |-> NullAccess("findIndex"), ls |-> g.ls]
            ELSE IF index = -1
            THEN [env |-> Failure(NotFoundMsg(originalName)), ls |-> g.ls]
            ELSE [env |-> Success(<<vendor>>),
                  ls |-> saveVendors([g.list EXCEPT ![index + 1] = vendor])]

LocalDeleteVendor(ls, companyName, f) ==
    IF f # "ok" THEN [env |-> LocalFault(f), ls |-> ls]
    ELSE LET g == getStoredVendors(ls)
             filtered == FilterOut(g.list, companyName)
         IN IF ~g.isList THEN [env |-> NullAccess("filter"), ls |-> g.ls]
            ELSE IF Len(filtered) = Len(g.list)
            THEN [env |-> Failure(NotFoundMsg(companyName)), ls |-> g.ls]
            ELSE [env |-> Success(<<>>), ls |-> saveVendors(filtered)]

----------------------------------------------------------------------------
(* The hook: operations in flight *)

NoVendor == Vendor("", "", "", 0, "", "")

NoReq == [method |-> "none", first |-> 0, values |-> <<>>]

(* No function of the utilities is being applied. *)
NoPure == [of |-> "none", arg |-> NoVendor, res |-> NoVendor, trace |-> <<>>]

NoRsp == [fault |-> "none", values |-> <<>>]

IdleOp == [kind |-> "idle", pc |-> "idle", name |-> "", vendor |-> NoVendor,
           req |-> NoReq, rsp |-> NoRsp, t |-> 0, v0 |-> <<>>, r0 |-> <<>>,
           ovl |-> FALSE]

NoEnv == [success |-> FALSE, data |-> <<>>, error |-> Undefined]

(* VendorDelete: the selection, the confirmation flag and the warning of   *)
(* the view, the operations whose result a handleConfirmDelete awaits,     *)
(* and the vendor whose deletion the user has asked for and not withdrawn. *)
NoView == [selectedVendor |-> "", showConfirm |-> FALSE, formAlert |-> Null,
           awaiting |-> {}, asked |-> Null]

NoEvent == [type |-> "none", slot |-> 0, op |-> IdleOp, fault |-> "none",
            env |-> NoEnv, resolved |-> "pending", fetchFailed |-> FALSE,
            before |-> [sheet |-> <<>>, ls |-> LsNull, vendors |-> <<>>,
                        error |-> Null, view |-> NoView]]

Slots == 1..MaxOps

Mutations == {"add", "update", "delete"}

InFlight(i) == ops[i].kind # "idle"

Snapshot == [sheet |-> sheet, ls |-> localStorage, vendors |-> vendors, error |-> error,
             view |-> view]

(* A fetch of the service, by refresh or before a PUT, has failed in this *)
(* step or in an earlier one.                                             *)
FetchFailedBy(o, f) ==
    \/ ev.fetchFailed
    \/ f \notin {"ok", "none"} /\ o.pc \in {"svcRead", "refReadRsp", "refTimer"}

(* What the step just taken did: the operation it belongs to as it was   *)
(* before the step, the outcome of the backend access and the envelope    *)
(* the hook handled, what the operation resolved to, and the store, the   *)
(* list and the error before the step.                                    *)
Event(type, i, o, f, env, resolved) ==
    [type |-> type, slot |-> i, op |-> o, fault |-> f, env |-> env,
     resolved |-> resolved, before |-> Snapshot,
     fetchFailed |-> FetchFailedBy(o, f)]

(* What service.fetchVendors returns from the store as it is now. *)
FetchNow ==
    IF backend = "sheets" THEN SheetsFetchVendors([fault |-> "ok", values |-> sheet])
    ELSE LocalFetchVendors(localStorage, "ok").env

(* Starting an operation while another is in flight marks both as overlapped. *)
MarkOverlap(i, new) ==
    LET busy == \E j \in Slots : j # i /\ InFlight(j) IN
    [j \in Slots |->
        IF j = i THEN [new EXCEPT !.ovl = busy]
        ELSE IF InFlight(j) THEN [ops[j] EXCEPT !.ovl = TRUE]
        ELSE ops[j]]

FetchPc == IF backend = "sheets" THEN "refRead" ELSE "refTimer"

(* simulateDelay: the local service waits 300 ms before a fetch and 500 ms *)
(* before a mutation.  t orders the pending timers by their start; a timer *)
(* started earlier with a delay no longer than another's fires before it.  *)
FETCH_DELAY == 300

MUTATION_DELAY == 500

Delay(pc) == IF pc = "refTimer" THEN FETCH_DELAY ELSE MUTATION_DELAY

StartOrder(i) ==
    IF backend = "local"
    THEN LET ts == {ops[j].t : j \in {k \in Slots : k # i /\ InFlight(k)}} \cup {0}
         IN 1 + (CHOOSE x \in ts : \A y \in ts : y <= x)
    ELSE 0

TimerDue(i) ==
    \A j \in Slots :
        (j # i /\ InFlight(j) /\ ops[j].t < ops[i].t)
            => Delay(ops[j].pc) > Delay(ops[i].pc)

(* refresh(), up to its await: lines 96-99 *)
ErrorAtRefreshStart == Null

LoadingAtRefreshStart == TRUE

(* refresh(), after its await: lines 101-108 *)
VendorsKeptAfterRefresh(env) == vendors

VendorsTakenAfterRefresh(env) == env.data

(* refresh() emptying the list when its fetch failed *)
VendorsClearedAfterRefresh(env) ==
    IF env.success /\ HasData(env) THEN env.data
    ELSE IF env.success THEN vendors ELSE <<>>

VendorsAfterRefresh(env) ==
    IF env.success /\ HasData(env) THEN env.data ELSE vendors

ErrorAfterRefresh(env) ==
    IF env.success /\ HasData(env) THEN error
    ELSE Or(env.error, "Failed to fetch vendor data")

LoadingAfterGoodRefresh(env) == IF env.success THEN FALSE ELSE isLoading

LoadingAfterRefresh(env) == FALSE

(* refresh() ending the initial load only when its fetch succeeded *)
InitialLoadingAfterGoodRefresh(env) == IF env.success THEN FALSE ELSE isInitialLoading

InitialLoadingAfterRefresh(env) == FALSE

(* a mutation, up to its await *)
AlertAtMutationStart == NoAlert

ErrorClearedAtMutationStart == Null

ErrorAtMutationStart == error

(* a mutation, after its await *)
SuccessText(kind) ==
    IF kind = "add" THEN "Vendor details successfully submitted!"
    ELSE IF kind = "update" THEN "Vendor details successfully updated!"
    ELSE "Vendor successfully deleted!"

SuccessAlert(kind) == [type |-> "success", message |-> SuccessText(kind)]

FailureAlertNoFallback(kind, env) == [type |-> "error", message |-> env.error]

FailureAlert(kind, env) ==
    [type |-> "error", message |-> Or(env.error, "Failed to " \o kind \o " vendor")]

LoadingKeptAfterFailure == isLoading

LoadingAfterFailure == FALSE

(* handleConfirmDelete after `await onDelete`, resetting on a failure too *)
ViewResetAfterDelete(i, success) ==
    IF i \notin view.awaiting THEN view
    ELSE [view EXCEPT !.selectedVendor = "", !.showConfirm = FALSE,
                      !.asked = Null, !.awaiting = @ \ {i}]

(* handleConfirmDelete after `await onDelete(selectedVendor)` returned     *)
(* for the operation in slot i: lines 78-81                                *)
ViewAfterDelete(i, success) ==
    IF i \notin view.awaiting THEN view
    ELSE IF success
    THEN [view EXCEPT !.selectedVendor = "", !.showConfirm = FALSE,
                      !.asked = Null, !.awaiting = @ \ {i}]
    ELSE [view EXCEPT !.awaiting = @ \ {i}]

(* The clients of the two-client specification: none is calling. *)
IdleClient == [kind |-> "idle", pc |-> "idle", name |-> "", vendor |-> NoVendor,
               seen |-> <<>>, req |-> NoReq, result |-> NoEnv, missed |-> <<>>]

Clients == {1, 2}

NoClients == [c \in Clients |-> IdleClient]

ResultOfRefresh(env) == IF env.success THEN "true" ELSE "false"

ResultAfterRefresh(env) == "true"

ResultAfterFailure == "false"

----------------------------------------------------------------------------
(* Initial state: the hook as useState leaves it, over any of the stores  *)

SheetOf(list) == ApiPut(<<>>, 1, <<HEADERS>> \o [i \in 1..Len(list) |-> VendorRow(list[i])])

InitSheets == {<<>>, SheetOf(<<>>), SheetOf(<<VA, VZ>>), SheetOf(<<VA, VA2>>)}

InitStorages == {LsNull, LsGarbage, JSONstringify(<<VA, VZ>>),
                 JSONstringify(<<VA, VA2>>)}

(* A sheet whose header row names the six columns in another order or     *)
(* misspells one, with its data rows laid out under that header.          *)
SWAPPED_HEADERS == <<"BusinessType", "CompanyName", "Products", "YearsInBusiness",
                     "OnboardingDate", "AdditionalInfo">>

MISSPELT_HEADERS == <<"Company Name", "BusinessType", "Products", "YearsInBusiness",
                      "OnboardingDate", "AdditionalInfo">>

CellFor(header, v) ==
    IF header = "BusinessType" THEN v.BusinessType
    ELSE IF header = "Products" THEN v.Products
    ELSE IF header = "YearsInBusiness" THEN NumToStr(v.YearsInBusiness)
    ELSE IF header = "OnboardingDate" THEN v.OnboardingDate
    ELSE IF header = "AdditionalInfo" THEN v.AdditionalInfo
    ELSE v.CompanyName

SheetUnder(headers, list) ==
    <<headers>> \o [i \in 1..Len(list) |->
                      TrimRow([j \in 1..Len(headers) |-> CellFor(headers[j], list[i])])]

AnySheets == InitSheets \cup {SheetUnder(SWAPPED_HEADERS, <<VA, VZ>>),
                              SheetUnder(MISSPELT_HEADERS, <<VA, VZ>>)}

AnyStorages == InitStorages \cup {LsEmpty, LsJsonNull}

HookInit ==
    /\ vendors = <<>>
    /\ isLoading = FALSE
    /\ isInitialLoading = TRUE
    /\ error = Null
    /\ alert = NoAlert
    /\ mounted = FALSE
    /\ ops = [i \in Slots |-> IdleOp]
    /\ calls = 0
    /\ ev = NoEvent
    /\ view = NoView
    /\ clients = NoClients

Init ==
    /\ backend \in {"sheets", "local"}
    /\ sheet \in (IF backend = "sheets" THEN InitSheets ELSE {<<>>})
    /\ localStorage \in (IF backend = "local" THEN InitStorages ELSE {LsNull})
    /\ vendors = <<>>
    /\ isLoading = FALSE
    /\ isInitialLoading = TRUE
    /\ error = Null
    /\ alert = NoAlert
    /\ mounted = FALSE
    /\ ops = [i \in Slots |-> IdleOp]
    /\ calls = 0
    /\ ev = NoEvent
    /\ pure = NoPure
    /\ view = NoView
    /\ clients = NoClients

----------------------------------------------------------------------------
(* Hook handlers *)

NewOp(i, kind, pc, name, vendor, req) ==
    [kind |-> kind, pc |-> pc, name |-> name, vendor |-> vendor, req |-> req,
     rsp |-> NoRsp, t |-> StartOrder(i), v0 |-> vendors, r0 |-> vendors,
     ovl |-> FALSE]

(* refresh() is called: by the mount effect or by a consumer *)
StartRefresh(i) ==
    /\ ops[i].kind = "idle"
    /\ \A j \in 1..(i - 1) : ops[j].kind # "idle"
    /\ calls < MaxCalls
    /\ isLoading' = LoadingAtRefreshStart
    /\ error' = ErrorAtRefreshStart
    /\ ops' = MarkOverlap(i, NewOp(i, "refresh", FetchPc, "", NoVendor, NoReq))
    /\ calls' = calls + 1
    /\ ev' = Event("invoke", i, ops'[i], "none", NoEnv, "pending")
    /\ UNCHANGED <<view, clients, pure, backend, sheet, localStorage, vendors,
                   isInitialLoading, alert>>

(* useEffect(() => { refresh(); }, [refresh]) *)
Mount ==
    /\ ~mounted
    /\ mounted' = TRUE
    /\ StartRefresh(1)

Refresh(i) ==
    /\ mounted
    /\ UNCHANGED mounted
    /\ StartRefresh(i)

(* Every mutation of the Sheets service starting with a read of the sheet *)
FirstPcReading(kind) == IF backend = "local" THEN "timer" ELSE "svcRead"

(* The request the Sheets service sends first for each mutation. *)
FirstPc(kind) ==
    IF backend = "local" THEN "timer"
    ELSE IF kind = "add" THEN "svcWrite" ELSE "svcRead"

FirstReq(kind, vendor) ==
    IF backend = "sheets" /\ kind = "add"
    THEN [method |-> "append", first |-> 0, values |-> <<VendorRow(vendor)>>]
    ELSE NoReq

(* addVendor / updateVendor / deleteVendor are called *)
StartMutation(i, kind, name, vendor) ==
    /\ mounted
    /\ ops[i].kind = "idle"
    /\ \A j \in 1..(i - 1) : ops[j].kind # "idle"
    /\ calls < MaxCalls
    /\ isLoading' = TRUE
    /\ alert' = AlertAtMutationStart
    /\ error' = ErrorAtMutationStart
    /\ ops' = MarkOverlap(i, NewOp(i, kind, FirstPc(kind), name, vendor,
                                   FirstReq(kind, vendor)))
    /\ calls' = calls + 1
    /\ ev' = Event("invoke", i, ops'[i], "none", NoEnv, "pending")
    /\ UNCHANGED <<clients, pure, backend, sheet, localStorage, vendors,
                   isInitialLoading, mounted>>

AddVendor(i) ==
    /\ \E v \in InputVendors : StartMutation(i, "add", "", v)
    /\ UNCHANGED view

UpdateVendor(i) ==
    /\ \E n \in InputNames, v \in InputVendors : StartMutation(i, "update", n, v)
    /\ UNCHANGED view

DeleteVendor(i) ==
    /\ \E n \in InputNames : StartMutation(i, "delete", n, NoVendor)
    /\ UNCHANGED view

(* The code of a mutation after `await service.xxx(...)` returned env. *)
BackendReturned(i, f, env) ==
    LET o == ops[i] IN
    IF IsRejected(env)
    THEN /\ UNCHANGED <<alert, isLoading, error>>
         /\ ops' = [ops EXCEPT ![i] = IdleOp]
         /\ ev' = Event("backend", i, o, f, env, "rejected")
         /\ view' = [view EXCEPT !.awaiting = @ \ {i}]
    ELSE IF env.success
    THEN /\ alert' = SuccessAlert(o.kind)
         /\ isLoading' = LoadingAtRefreshStart
         /\ error' = ErrorAtRefreshStart
         /\ ops' = [ops EXCEPT ![i] = [o EXCEPT !.pc = FetchPc, !.r0 = vendors,
                                                 !.t = StartOrder(i),
                                                 !.req = NoReq, !.rsp = NoRsp]]
         /\ ev' = Event("backend", i, o, f, env, "pending")
         /\ UNCHANGED view
    ELSE /\ alert' = FailureAlert(o.kind, env)
         /\ isLoading' = LoadingAfterFailure
         /\ error' = error
         /\ ops' = [ops EXCEPT ![i] = IdleOp]
         /\ ev' = Event("backend", i, o, f, env, ResultAfterFailure)
         /\ view' = ViewAfterDelete(i, FALSE)

(* The code of refresh() after `await service.fetchVendors()` returned env, *)
(* and the return of the mutation that awaited this refresh.                *)
RefreshReturned(i, f, env) ==
    LET o == ops[i] IN
    IF IsRejected(env)
    THEN /\ UNCHANGED <<vendors, error, isLoading, isInitialLoading>>
         /\ ops' = [ops EXCEPT ![i] = IdleOp]
         /\ ev' = Event("refresh", i, o, f, env, "rejected")
         /\ view' = [view EXCEPT !.awaiting = @ \ {i}]
    ELSE /\ vendors' = VendorsAfterRefresh(env)
         /\ error' = ErrorAfterRefresh(env)
         /\ isLoading' = LoadingAfterRefresh(env)
         /\ isInitialLoading' = InitialLoadingAfterRefresh(env)
         /\ ops' = [ops EXCEPT ![i] = IdleOp]
         /\ ev' = Event("refresh", i, o, f, env,
                      IF o.kind = "refresh" THEN "void" ELSE ResultAfterRefresh(env))
         /\ view' = ViewAfterDelete(i, TRUE)

ClearAlert ==
    /\ mounted
    /\ alert # NoAlert
    /\ alert' = NoAlert
    /\ ev' = [NoEvent EXCEPT !.fetchFailed = ev.fetchFailed, !.type = "clearAlert"]
    /\ UNCHANGED <<view, clients, pure, backend, sheet, localStorage, vendors, isLoading,
                   isInitialLoading, error, mounted, ops, calls>>

----------------------------------------------------------------------------
(* Google Sheets service.  A write, and the service's own read before a   *)
(* write, take effect on the sheet at the moment their answer arrives;    *)
(* the answer to the fetch of refresh() carries the rows the server read  *)
(* when it handled the request, which may be earlier.                     *)

(* The server answers the GET sent by refresh(). *)
SheetsRead(i) ==
    /\ backend = "sheets"
    /\ ops[i].pc = "refRead"
    /\ \E f \in ReadFaults :
         ops' = [ops EXCEPT ![i].pc = "refReadRsp",
                            ![i].rsp = [fault |-> f,
                                        values |-> IF f = "ok" THEN sheet ELSE <<>>]]
    /\ ev' = [NoEvent EXCEPT !.fetchFailed = ev.fetchFailed, !.type = "server"]
    /\ UNCHANGED <<view, clients, pure, backend, sheet, localStorage, vendors, isLoading,
                   isInitialLoading, error, alert, mounted, calls>>

ApplyRequest(sh, req) ==
    IF req.method = "append" THEN ApiAppend(sh, req.values)
    ELSE ApiPut(sh, req.first, req.values)

(* updateVendor addressing the row without counting the header row *)
SheetsUpdateRowOff(rsp, originalName, vendor) ==
    LET allData == SheetsFetchVendors(rsp)
        rowIndex == FindIndex(allData.data, originalName)
    IN IF ~allData.success
       THEN [send |-> FALSE, req |-> NoReq,
             env |-> Caught("Failed to fetch existing data for update")]
       ELSE IF rowIndex = -1
       THEN [send |-> FALSE, req |-> NoReq, env |-> Caught(NotFoundMsg(originalName))]
       ELSE [send |-> TRUE, env |-> NoEnv,
             req |-> [method |-> "put", first |-> rowIndex + 1,
                      values |-> <<VendorRow(vendor)>>]]

(* updateVendor addressing the last record of the name *)
SheetsUpdateLast(rsp, originalName, vendor) ==
    LET allData == SheetsFetchVendors(rsp)
        found == {k \in 1..Len(allData.data) :
                    allData.data[k].CompanyName = originalName}
    IN IF ~allData.success
       THEN [send |-> FALSE, req |-> NoReq,
             env |-> Caught("Failed to fetch existing data for update")]
       ELSE IF found = {}
       THEN [send |-> FALSE, req |-> NoReq, env |-> Caught(NotFoundMsg(originalName))]
       ELSE [send |-> TRUE, env |-> NoEnv,
             req |-> [method |-> "put",
                      first |-> 1 + CHOOSE k \in found : \A m \in found : m <= k,
                      values |-> <<VendorRow(vendor)>>]]

(* updateVendor of the Sheets service from its fetch to its PUT:          *)
(* the failure it returns, or the request it sends.                       *)
SheetsUpdateStep(rsp, originalName, vendor) ==
    LET allData == SheetsFetchVendors(rsp)
        rowIndex == FindIndex(allData.data, originalName)
    IN IF ~allData.success
       THEN [send |-> FALSE, req |-> NoReq,
             env |-> Caught("Failed to fetch existing data for update")]
       ELSE IF rowIndex = -1
       THEN [send |-> FALSE, req |-> NoReq, env |-> Caught(NotFoundMsg(originalName))]
       ELSE [send |-> TRUE, env |-> NoEnv,
             req |-> [method |-> "put", first |-> rowIndex + 2,
                      values |-> <<VendorRow(vendor)>>]]

(* deleteVendor of the Sheets service from its fetch to its PUT.          *)
SheetsDeleteStep(rsp, companyName) ==
    LET allData == SheetsFetchVendors(rsp)
        rowIndex == FindIndex(allData.data, companyName)
        updatedVendors == FilterOut(allData.data, companyName)
    IN IF ~allData.success
       THEN [send |-> FALSE, req |-> NoReq,
             env |-> Caught("Failed to fetch existing data for deletion")]
       ELSE IF rowIndex = -1
       THEN [send |-> FALSE, req |-> NoReq, env |-> Caught(NotFoundMsg(companyName))]
       ELSE [send |-> TRUE, env |-> NoEnv,
             req |-> [method |-> "put", first |-> 1,
                      values |-> <<HEADERS>> \o
                                 [k \in 1..Len(updatedVendors) |->
                                    VendorRow(updatedVendors[k])]]]

(* The answer to the service's own fetch arrives: the service fails, or   *)
(* it sends its PUT.                                                      *)
SheetsLocate(i) ==
    /\ backend = "sheets"
    /\ ops[i].pc = "svcRead"
    /\ \E f \in ReadFaults :
         LET o == ops[i]
             rsp == [fault |-> f, values |-> IF f = "ok" THEN sheet ELSE <<>>]
             st == IF o.kind = "update" THEN SheetsUpdateStep(rsp, o.name, o.vendor)
                   ELSE SheetsDeleteStep(rsp, o.name)
         IN IF st.send
            THEN /\ ops' = [ops EXCEPT ![i].pc = "svcWrite", ![i].req = st.req]
                 /\ ev' = Event("located", i, o, f, NoEnv, "pending")
                 /\ UNCHANGED <<isLoading, error, alert, view>>
            ELSE BackendReturned(i, f, st.env)
    /\ UNCHANGED <<clients, pure, backend, sheet, localStorage, vendors, isInitialLoading,
                   mounted, calls>>

SheetsWriteResult(kind, vendor, rsp) ==
    IF rsp.fault = "ok"
    THEN Success(IF kind = "delete" THEN <<>> ELSE <<vendor>>)
    ELSE WriteFailure(rsp, kind)

(* The append or the PUT is handled and its answer arrives. *)
SheetsWrite(i) ==
    /\ backend = "sheets"
    /\ ops[i].pc = "svcWrite"
    /\ \E f \in Faults :
         /\ sheet' = IF f = "ok" THEN ApplyRequest(sheet, ops[i].req) ELSE sheet
         /\ BackendReturned(i, f, SheetsWriteResult(ops[i].kind, ops[i].vendor,
                                                    [fault |-> f, values |-> <<>>]))
    /\ UNCHANGED <<clients, pure, backend, localStorage, vendors, isInitialLoading,
                   mounted, calls>>

(* The answer to the fetch of refresh() arrives. *)
SheetsFetched(i) ==
    /\ backend = "sheets"
    /\ ops[i].pc = "refReadRsp"
    /\ RefreshReturned(i, ops[i].rsp.fault, SheetsFetchVendors(ops[i].rsp))
    /\ UNCHANGED <<clients, pure, backend, sheet, localStorage, alert, mounted, calls>>

----------------------------------------------------------------------------
(* localStorage service: the delay elapses, the operation runs on the     *)
(* storage and the hook continues, in one task                            *)

LocalRun(o, ls, f) ==
    IF o.kind = "add" THEN LocalAddVendor(ls, o.vendor, f)
    ELSE IF o.kind = "update" THEN LocalUpdateVendor(ls, o.name, o.vendor, f)
    ELSE LocalDeleteVendor(ls, o.name, f)

LocalMutated(i) ==
    /\ backend = "local"
    /\ ops[i].pc = "timer"
    /\ TimerDue(i)
    /\ \E f \in LocalFaults :
         LET r == LocalRun(ops[i], localStorage, f) IN
         /\ localStorage' = r.ls
         /\ BackendReturned(i, f, r.env)
    /\ UNCHANGED <<clients, pure, backend, sheet, vendors, isInitialLoading, mounted, calls>>

LocalFetched(i) ==
    /\ backend = "local"
    /\ ops[i].pc = "refTimer"
    /\ TimerDue(i)
    /\ \E f \in LocalFaults :
         LET r == LocalFetchVendors(localStorage, f) IN
         /\ localStorage' = r.ls
         /\ RefreshReturned(i, f, r.env)
    /\ UNCHANGED <<clients, pure, backend, sheet, alert, mounted, calls>>

----------------------------------------------------------------------------

Next ==
    \/ Mount
    \/ ClearAlert
    \/ \E i \in Slots :
         \/ Refresh(i)
         \/ AddVendor(i)
         \/ UpdateVendor(i)
         \/ DeleteVendor(i)
         \/ SheetsRead(i)
         \/ SheetsLocate(i)
         \/ SheetsWrite(i)
         \/ SheetsFetched(i)
         \/ LocalMutated(i)
         \/ LocalFetched(i)

Spec == Init /\ [][Next]_vars

(* The same program over every content the stores can hold. *)
AnyStoreInit ==
    /\ backend \in {"sheets", "local"}
    /\ sheet \in (IF backend = "sheets" THEN AnySheets ELSE {<<>>})
    /\ localStorage \in (IF backend = "local" THEN AnyStorages ELSE {LsNull})
    /\ HookInit
    /\ pure = NoPure

AnyStoreSpec == AnyStoreInit /\ [][Next]_vars

TypeOK ==
    /\ backend \in {"sheets", "local"}
    /\ isLoading \in BOOLEAN
    /\ isInitialLoading \in BOOLEAN
    /\ calls \in 0..MaxCalls
    /\ \A i \in Slots : ops[i].kind \in {"idle", "refresh"} \cup Mutations

----------------------------------------------------------------------------
(* The onboarding form and the update form, submitting through the hook.   *)
(* The forms are shown once the first load is over, and their submit       *)
(* button is disabled while isLoading.                                     *)

TypedNames == {"Zeta Corp", " zeta corp", "Nova Ltd", ""}

TypedForms ==
    {FormData(c, b, <<"Other">>, 5, "2025-02-02", "") :
        c \in TypedNames, b \in {"Retailer", ""}}

FormsUsable == mounted /\ ~isInitialLoading /\ ~isLoading

(* VendorForm.handleSubmit *)
SubmitVendorForm(i) ==
    /\ FormsUsable
    /\ \E formData \in TypedForms :
         /\ validateMandatoryFields(formData)
         /\ ~isDuplicateVendor(formData.companyName, vendors)
         /\ StartMutation(i, "add", "", formDataToVendor(formData))
    /\ UNCHANGED view

(* VendorUpdate.handleSubmit, a vendor of the list being selected *)
SubmitVendorUpdate(i) ==
    /\ FormsUsable
    /\ \E k \in 1..Len(vendors), formData \in TypedForms :
         /\ validateMandatoryFields(formData)
         /\ StartMutation(i, "update", vendors[k].CompanyName,
                          formDataToVendor(formData))
    /\ UNCHANGED view

FormSheets == {<<>>, SheetOf(<<>>), SheetOf(<<VA, VZ>>)}

FormStorages == {LsNull, JSONstringify(<<VA, VZ>>)}

FormInit ==
    /\ backend \in {"sheets", "local"}
    /\ sheet \in (IF backend = "sheets" THEN FormSheets ELSE {<<>>})
    /\ localStorage \in (IF backend = "local" THEN FormStorages ELSE {LsNull})
    /\ HookInit
    /\ pure = NoPure

FormNext ==
    \/ Mount
    \/ ClearAlert
    \/ \E i \in Slots :
         \/ SubmitVendorForm(i)
         \/ SubmitVendorUpdate(i)
         \/ SheetsRead(i)
         \/ SheetsLocate(i)
         \/ SheetsWrite(i)
         \/ SheetsFetched(i)
         \/ LocalMutated(i)
         \/ LocalFetched(i)

FormSpec == FormInit /\ [][FormNext]_vars

----------------------------------------------------------------------------
(* The delete view, deleting through the hook.  The view is shown once the *)
(* first load is over; its selector and its buttons are disabled while     *)
(* isLoading.                                                               *)

ViewShown == mounted /\ ~isInitialLoading

(* vendors.find((v) => v.CompanyName === selectedVendor) finds a record *)
vendorDetails ==
    \E k \in 1..Len(vendors) : vendors[k].CompanyName = view.selectedVendor

ViewEvent(type) ==
    [NoEvent EXCEPT !.fetchFailed = ev.fetchFailed, !.type = type,
                    !.before = Snapshot]

ViewFrame == <<clients, pure, backend, sheet, localStorage, vendors, isLoading,
               isInitialLoading, error, alert, mounted, ops, calls>>

(* Select.onChange *)
Selected(value) ==
    [view EXCEPT !.selectedVendor = value, !.showConfirm = FALSE,
                 !.formAlert = Null, !.asked = Null]

(* The user picks another vendor in the selector. *)
SelectVendor ==
    /\ ViewShown /\ ~isLoading
    /\ \E k \in 1..Len(vendors) :
         /\ vendors[k].CompanyName # view.selectedVendor
         /\ view' = Selected(vendors[k].CompanyName)
    /\ ev' = ViewEvent("select")
    /\ UNCHANGED ViewFrame

(* handleDeleteRequest, from the button of the preview card *)
RequestDelete ==
    /\ ViewShown /\ ~isLoading
    /\ vendorDetails /\ ~view.showConfirm
    /\ view' = IF ~Truthy(view.selectedVendor)
               THEN [view EXCEPT !.formAlert = "warning"]
               ELSE [view EXCEPT !.showConfirm = TRUE, !.formAlert = Null,
                                 !.asked = view.selectedVendor]
    /\ ev' = ViewEvent("request")
    /\ UNCHANGED ViewFrame

(* handleConfirmDelete up to its await, from the button of the dialog *)
ConfirmDelete(i) ==
    /\ ViewShown /\ ~isLoading
    /\ vendorDetails /\ view.showConfirm
    /\ Truthy(view.selectedVendor)
    /\ StartMutation(i, "delete", view.selectedVendor, NoVendor)
    /\ view' = [view EXCEPT !.awaiting = @ \cup {i}]

(* handleCancelDelete, from the button of the dialog *)
CancelDelete ==
    /\ ViewShown /\ ~isLoading
    /\ vendorDetails /\ view.showConfirm
    /\ view' = [view EXCEPT !.showConfirm = FALSE, !.asked = Null]
    /\ ev' = ViewEvent("cancel")
    /\ UNCHANGED ViewFrame

(* The Retry Loading button of the error banner *)
RetryLoading(i) ==
    /\ Truthy(error) /\ ~isInitialLoading
    /\ Refresh(i)

(* Another action is chosen and the delete action again: the view is       *)
(* mounted anew, and what an earlier handler still awaits no longer        *)
(* reaches it.                                                             *)
ChangeAction ==
    /\ ViewShown
    /\ view # NoView
    /\ view' = NoView
    /\ alert' = NoAlert
    /\ ev' = ViewEvent("action")
    /\ UNCHANGED <<clients, pure, backend, sheet, localStorage, vendors, isLoading,
                   isInitialLoading, error, mounted, ops, calls>>

VE == Vendor("", "Retailer", "Other", 2, "2025-05-05", "")

DeleteViewInit ==
    /\ backend \in {"sheets", "local"}
    /\ sheet \in (IF backend = "sheets"
                  THEN {SheetOf(<<VA, VZ>>), SheetOf(<<VE, VA>>)} ELSE {<<>>})
    /\ localStorage \in (IF backend = "local"
                         THEN {LsNull, JSONstringify(<<VA, VZ>>)} ELSE {LsNull})
    /\ HookInit
    /\ pure = NoPure

DeleteViewNext ==
    \/ Mount
    \/ ClearAlert
    \/ SelectVendor
    \/ RequestDelete
    \/ CancelDelete
    \/ ChangeAction
    \/ \E i \in Slots :
         \/ ConfirmDelete(i)
         \/ RetryLoading(i)
         \/ SheetsRead(i)
         \/ SheetsLocate(i)
         \/ SheetsWrite(i)
         \/ SheetsFetched(i)
         \/ LocalMutated(i)
         \/ LocalFetched(i)

DeleteViewSpec == DeleteViewInit /\ [][DeleteViewNext]_vars

----------------------------------------------------------------------------
(* Two clients of one remote sheet, each calling the operations of its own *)
(* Sheets service.  A client keeps the rows its fetch returned (seen), the *)
(* request built from them, the envelope its call returned, and the        *)
(* requests the other client had committed while its own write was on its  *)
(* way (missed).                                                           *)

VC == Vendor("Nova Ltd", "Wholesaler", "Groceries", 1, "2025-04-04", "new")

ClientVendors == {VB, VC}

(* service.addVendor / updateVendor / deleteVendor is called by client c *)
ClientCalls(c) ==
    /\ clients[c].pc \in {"idle", "done"}
    /\ calls < MaxCalls
    /\ \E kind \in Mutations, n \in InputNames, v \in ClientVendors :
         clients' = [clients EXCEPT ![c] =
                        [IdleClient EXCEPT
                            !.kind = kind,
                            !.pc = FirstPc(kind),
                            !.name = IF kind = "add" THEN "" ELSE n,
                            !.vendor = IF kind = "delete" THEN NoVendor ELSE v,
                            !.req = FirstReq(kind, v)]]
    /\ calls' = calls + 1
    /\ ev' = [NoEvent EXCEPT !.fetchFailed = ev.fetchFailed, !.type = "called", !.slot = c]
    /\ UNCHANGED <<view, pure, backend, sheet, localStorage, vendors, isLoading,
                   isInitialLoading, error, alert, mounted, ops>>

(* The answer to the fetch of client c's updateVendor or deleteVendor      *)
(* arrives: the service returns its failure, or sends its PUT.             *)
ClientLocates(c) ==
    /\ clients[c].pc = "svcRead"
    /\ \E f \in ReadFaults :
         LET o == clients[c]
             rsp == [fault |-> f, values |-> IF f = "ok" THEN sheet ELSE <<>>]
             st == IF o.kind = "update" THEN SheetsUpdateStep(rsp, o.name, o.vendor)
                   ELSE SheetsDeleteStep(rsp, o.name)
         IN /\ clients' = [clients EXCEPT ![c] =
                   IF st.send
                   THEN [o EXCEPT !.pc = "svcWrite", !.req = st.req, !.seen = sheet]
                   ELSE [o EXCEPT !.pc = "done", !.result = st.env]]
            /\ ev' = [NoEvent EXCEPT !.fetchFailed = ev.fetchFailed,
                                     !.type = "located", !.slot = c, !.fault = f,
                                     !.before = Snapshot]
    /\ UNCHANGED <<view, pure, backend, sheet, localStorage, vendors, isLoading,
                   isInitialLoading, error, alert, mounted, ops, calls>>

(* A PUT that the server refuses when the sheet is no longer the one read *)
ClientPutVersioned(c) ==
    IF clients[c].kind # "add" /\ sheet # clients[c].seen THEN sheet
    ELSE ApplyRequest(sheet, clients[c].req)

(* The sheet once the server has handled the request of client c; it is   *)
(* sent with no version or condition.                                      *)
ClientPut(c) == ApplyRequest(sheet, clients[c].req)

(* The append or the PUT of client c is handled and its answer arrives. *)
ClientWrites(c) ==
    /\ clients[c].pc = "svcWrite"
    /\ \E f \in Faults :
         LET o == clients[c] IN
         /\ sheet' = IF f = "ok" THEN ClientPut(c) ELSE sheet
         /\ clients' =
               [d \in Clients |->
                  IF d = c
                  THEN [o EXCEPT !.pc = "done",
                                 !.result = SheetsWriteResult(o.kind, o.vendor,
                                               [fault |-> f, values |-> <<>>])]
                  ELSE IF f = "ok" /\ clients[d].pc = "svcWrite"
                          /\ clients[d].kind # "add"
                  THEN [clients[d] EXCEPT !.missed = Append(@, o.req)]
                  ELSE clients[d]]
         /\ ev' = [NoEvent EXCEPT !.fetchFailed = ev.fetchFailed,
                                  !.type = "wrote", !.slot = c, !.fault = f,
                                  !.before = Snapshot]
    /\ UNCHANGED <<view, pure, backend, localStorage, vendors, isLoading,
                   isInitialLoading, error, alert, mounted, ops, calls>>

TwoClientInit ==
    /\ backend = "sheets"
    /\ sheet \in {SheetOf(<<VA, VZ>>), SheetOf(<<VZ>>)}
    /\ localStorage = LsNull
    /\ HookInit
    /\ pure = NoPure

TwoClientNext ==
    \E c \in Clients :
        \/ ClientCalls(c)
        \/ ClientLocates(c)
        \/ ClientWrites(c)

TwoClientSpec == TwoClientInit /\ [][TwoClientNext]_vars

----------------------------------------------------------------------------
(* The functions of the utilities and the factory, applied to the values   *)
(* they can be given                                                       *)

Range(seq) == {seq[i] : i \in 1..Len(seq)}

ProductLists ==
    UNION {[1..k -> Range(PRODUCTS)] : k \in 0..MaxProducts}

DistinctProductLists ==
    {p \in ProductLists : \A i, j \in 1..Len(p) : i # j => p[i] # p[j]}

FormInputs ==
    {FormData(c, b, p, y, d, a) :
        c \in {"", "Acme", " Acme Retail\t", "  "},
        b \in Range(BUSINESS_TYPES) \cup {""},
        p \in DistinctProductLists,
        y \in {0, YearsMax},
        d \in {"", "2025-02-02"},
        a \in {"", " first choice \n"}}

VendorInputs ==
    {Vendor(c, b, Join(p, ", "), y, d, a) :
        c \in {"Acme", " Acme Retail\t"},
        b \in Range(BUSINESS_TYPES),
        p \in ProductLists,
        y \in {0, YearsMax},
        d \in {"2025-02-02"},
        a \in {"", " first choice \n"}}

EnvInputs ==
    {[apiKey |-> k, spreadsheetId |-> i, worksheetName |-> w] :
        k \in {Undefined, "", "AIza-key"},
        i \in {Undefined, "", "sheet-id"},
        w \in {Undefined, "", "Suppliers"}}

Given(of, arg) == [of |-> of, arg |-> arg, res |-> arg, trace |-> <<>>]

PureInit ==
    /\ backend = "local"
    /\ sheet = <<>>
    /\ localStorage = LsNull
    /\ HookInit
    /\ \/ \E f \in FormInputs : pure = Given("form", f)
       \/ \E v \in VendorInputs : pure = Given("vendor", v)
       \/ \E e \in EnvInputs : pure = Given("env", e)

Applied(fn, res) == [pure EXCEPT !.res = res, !.trace = Append(@, fn)]

HookVars == <<backend, sheet, localStorage, vendors, isLoading, isInitialLoading,
              error, alert, mounted, ops, calls, ev, view, clients>>

ApplyCreateVendorService ==
    /\ pure.of = "env"
    /\ pure.trace = <<>>
    /\ pure' = Applied("createVendorService", createVendorService(pure.res))
    /\ UNCHANGED HookVars

ApplyFormDataToVendor ==
    /\ \/ pure.of = "form" /\ pure.trace = <<>>
       \/ pure.of = "vendor" /\ pure.trace = <<"vendorToFormData">>
    /\ pure' = Applied("formDataToVendor", formDataToVendor(pure.res))
    /\ UNCHANGED HookVars

ApplyVendorToFormData ==
    /\ \/ pure.of = "vendor" /\ pure.trace = <<>>
       \/ pure.of = "form" /\ pure.trace = <<"formDataToVendor">>
    /\ pure' = Applied("vendorToFormData", vendorToFormData(pure.res))
    /\ UNCHANGED HookVars

PureNext ==
    \/ ApplyCreateVendorService
    \/ ApplyFormDataToVendor
    \/ ApplyVendorToFormData

PureSpec == PureInit /\ [][PureNext]_vars

----------------------------------------------------------------------------
(* Properties of the hook *)

MutationResolvedAfterRefresh == ev.type = "refresh" /\ ev.op.kind \in Mutations

MutationFailed == ev.type = "backend" /\ ~ev.env.success

RefreshFailed == ev.type = "refresh" /\ ~ev.env.success

(* C1, as stated: whenever a mutation whose backend call succeeded       *)
(* resolves, vendors is the list fetchVendors would return now.           *)
C1_AsStated == MutationResolvedAfterRefresh => vendors = FetchNow.data

(* C1, amended: when a mutation that no other operation overlapped        *)
(* resolves after a successful backend call and a successful fetch of its *)
(* refresh, vendors is the list fetchVendors would return now.            *)
C1_PostMutationConsistency ==
    (MutationResolvedAfterRefresh /\ ev.env.success /\ ~ev.op.ovl)
        => vendors = FetchNow.data

C1_Witness ==
    /\ MutationResolvedAfterRefresh /\ ev.env.success /\ ~ev.op.ovl
    /\ vendors # ev.op.v0
    /\ vendors # <<>>

(* C2, as stated: when a mutation resolves on a failure envelope, vendors *)
(* is the list it was at the invocation and alert is an error alert with  *)
(* a non-empty message.                                                   *)
C2_AsStated ==
    MutationFailed =>
        /\ vendors = ev.op.v0
        /\ alert.type = "error"
        /\ alert.message \notin {"", Null, Undefined}

(* C2, amended: when a mutation resolves on a failure envelope, alert is  *)
(* an error alert with a non-empty message, the step leaves vendors as it *)
(* was, and vendors is the list it was at the invocation unless another   *)
(* operation overlapped the mutation.                                     *)
C2_FailedMutation ==
    MutationFailed =>
        /\ alert.type = "error"
        /\ alert.message \notin {"", Null, Undefined}
        /\ vendors = ev.before.vendors
        /\ ~ev.op.ovl => vendors = ev.op.v0

C2_Witness ==
    /\ MutationFailed /\ ~ev.op.ovl
    /\ ev.env.error = ""
    /\ alert.message = "Failed to update vendor"
    /\ vendors # <<>>

(* C3: a mutation that nothing overlaps sets isLoading and clears alert   *)
(* before the backend is called; isLoading stays true while it is in      *)
(* flight; on backend success alert is the success alert and the refresh  *)
(* is started; when the refresh has handled its fetch result, succeeded   *)
(* or failed, isLoading is false and the mutation resolves true.          *)
C3_MutationSequence ==
    /\ (ev.type = "invoke" /\ ev.op.kind \in Mutations)
          => (isLoading /\ alert = NoAlert /\ InFlight(ev.slot))
    /\ \A i \in Slots :
          (ops[i].kind \in Mutations /\ ~ops[i].ovl) => isLoading
    /\ (ev.type = "backend" /\ ev.env.success /\ ~ev.op.ovl)
          => /\ alert = SuccessAlert(ev.op.kind)
             /\ ops[ev.slot].kind = ev.op.kind
             /\ ops[ev.slot].pc \in {"refRead", "refTimer"}
    /\ (MutationResolvedAfterRefresh /\ ~ev.op.ovl)
          => (ev.resolved = "true" /\ ~isLoading /\ ~InFlight(ev.slot))

C3_Witness ==
    /\ MutationResolvedAfterRefresh /\ ~ev.op.ovl
    /\ ~ev.env.success
    /\ ev.resolved = "true"

(* C4: a mutation whose backend call returns a failure envelope starts no *)
(* refresh (it is over, with no fetch of its own sent), leaves isLoading  *)
(* false, and resolves false.                                             *)
C4_FailureWithoutRefresh ==
    MutationFailed =>
        /\ ev.resolved = "false"
        /\ ~isLoading
        /\ ops[ev.slot] = IdleOp
        /\ ev.op.pc \notin {"refRead", "refReadRsp", "refTimer"}

C4_Witness ==
    /\ MutationFailed
    /\ ev.resolved = "false"
    /\ \E j \in Slots : InFlight(j)

(* C5, as stated: when the fetch of a refresh fails, error is a message   *)
(* and vendors is the list it was when that refresh started.              *)
C5_AsStated ==
    RefreshFailed => (error \notin {Null, "", Undefined} /\ vendors = ev.op.r0)

(* C5, amended: when the fetch of a refresh fails, error is a message,    *)
(* the step leaves vendors as it was, and vendors is the list it was when *)
(* that refresh started unless another operation overlapped it.           *)
C5_FailedRefresh ==
    RefreshFailed =>
        /\ error \notin {Null, "", Undefined}
        /\ vendors = ev.before.vendors
        /\ ~ev.op.ovl => vendors = ev.op.r0

C5_Witness ==
    /\ RefreshFailed /\ ~ev.op.ovl
    /\ vendors # <<>>
    /\ error = "Failed to fetch vendor data"

(* C6: every refresh, whatever its fetch returned, ends with isLoading    *)
(* and isInitialLoading false.                                            *)
C6_RefreshClearsFlags ==
    ev.type = "refresh" => (~isLoading /\ ~isInitialLoading)

C6_Witness ==
    /\ RefreshFailed
    /\ ev.op.kind = "refresh"
    /\ ~isLoading /\ ~isInitialLoading

(* C7, as stated: a step that takes error from a message to null is the   *)
(* completion of a refresh whose fetch succeeded.                         *)
C7_AsStated ==
    (ev.before.error # Null /\ error = Null)
        => (ev.type = "refresh" /\ ev.env.success)

(* C7, amended: a step that takes error from a message to null is the     *)
(* start of a refresh, called by the consumer or by a mutation whose      *)
(* backend call succeeded; no other step clears it.                       *)
C7_ErrorClearedByRefreshStart ==
    (ev.before.error # Null /\ error = Null)
        => \/ ev.type = "invoke" /\ ev.op.kind = "refresh"
           \/ ev.type = "backend" /\ ev.env.success

C7_Witness ==
    /\ ev.before.error # Null /\ error = Null
    /\ ev.type = "backend" /\ ev.env.success

(* One step of the hook, as far as isInitialLoading goes. *)
InitialLoadingStep ==
    /\ ~mounted =>
          /\ isInitialLoading /\ calls = 0
          /\ \A i \in Slots : ops[i] = IdleOp
          /\ mounted' /\ calls' = 1 /\ isInitialLoading'
          /\ ops'[1].kind = "refresh"
          /\ ev'.type = "invoke"
    /\ mounted => mounted'
    /\ ev'.type = "refresh" => ~isInitialLoading'
    /\ ev'.type # "refresh" => isInitialLoading' = isInitialLoading
    /\ ~isInitialLoading => ~isInitialLoading'

(* C26: isInitialLoading is true when the hook is created; the one step   *)
(* the created hook takes by itself starts a refresh, and it is taken      *)
(* once; every completion of a refresh, the first included and whatever    *)
(* its fetch returned, leaves isInitialLoading false; no other step        *)
(* changes it, so a mutation failing before the first refresh completes    *)
(* leaves it true; once false it is never true again.                      *)
C26_InitialLoading == [][InitialLoadingStep]_vars

C26_Witness ==
    /\ MutationFailed
    /\ isInitialLoading
    /\ ops[1].kind = "refresh"
    /\ calls = 2

(* One step of the hook, as far as vendors goes. *)
VendorsStep ==
    /\ ~mounted => vendors = <<>>
    /\ IF ev'.type = "refresh" /\ ev'.env.success
       THEN IF HasData(ev'.env) THEN vendors' = ev'.env.data
            ELSE vendors = <<>> /\ vendors' = <<>>
       ELSE vendors' = vendors

(* C27: vendors is the empty list when the hook is created; the step in   *)
(* which a refresh handles a successful fetchVendors result leaves vendors *)
(* equal to the list of that result (the list being still the initial      *)
(* empty one when the result carries none); every other step, the start    *)
(* and the backend result of a mutation, an alert change, a failed fetch,  *)
(* leaves vendors as it was.                                               *)
C27_VendorsIsLastFetch == [][VendorsStep]_vars

C27_Witness ==
    /\ ev.type = "backend" /\ ev.env.success /\ ev.op.kind = "add"
    /\ vendors # <<>>
    /\ vendors = ev.op.v0
    /\ \A k \in 1..Len(vendors) : vendors[k] # ev.op.vendor
    /\ \E k \in 1..Len(FetchNow.data) : FetchNow.data[k] = ev.op.vendor

(* C28: isLoading is true in every state in which a refresh or a mutation *)
(* that was invoked has not completed yet.                                 *)
C28_BusyWhileInFlight == (\E i \in Slots : InFlight(i)) => isLoading

Quiescent == mounted /\ \A i \in Slots : ~InFlight(i)

(* C29: once every operation invoked on the hook has completed, no fetch  *)
(* of the service having failed, vendors is the list fetchVendors returns  *)
(* from the backend as it is now.                                          *)
C29_QuiescentConsistency ==
    (Quiescent /\ ~ev.fetchFailed) =>
        (HasData(FetchNow) /\ vendors = FetchNow.data)

----------------------------------------------------------------------------
(* Properties of the backends *)

(* The records a store holds. *)
StoredRecords(st) ==
    IF backend = "sheets"
    THEN SheetsFetchVendors([fault |-> "ok", values |-> st.sheet]).data
    ELSE IF st.ls.kind = "json" THEN st.ls.val ELSE <<>>

(* The list a mutation works on: on the local backend an absent or        *)
(* unparseable value is read as the seed.                                 *)
ListRead(st) ==
    IF backend = "local" /\ st.ls.kind # "json" THEN SEED_DATA ELSE StoredRecords(st)

Names(list) == {list[k].CompanyName : k \in 1..Len(list)}

(* The step in which the service, its read of the store having worked,    *)
(* either returned its failure or went on to write.                       *)
ServiceDecided(kind) ==
    /\ ev.type \in {"backend", "located"}
    /\ ev.op.kind = kind
    /\ ev.op.pc \in {"svcRead", "timer"}
    /\ ev.fault = "ok"

NotFoundReturned ==
    /\ ev.type = "backend"
    /\ ~ev.env.success
    /\ ev.env.error = NotFoundMsg(ev.op.name)
    /\ ops[ev.slot] = IdleOp

(* C8, as stated: updateVendor called when no stored record has the name  *)
(* returns the not-found failure, sends no write and leaves the sheet and *)
(* the localStorage value as they were.                                   *)
C8_AsStated ==
    (ServiceDecided("update") /\ ev.op.name \notin Names(StoredRecords(ev.before)))
        => /\ NotFoundReturned
           /\ sheet = ev.before.sheet
           /\ localStorage = ev.before.ls

(* C8, amended: updateVendor called when the list the backend reads (the  *)
(* stored records, or the seed when the local value is absent or does not *)
(* parse) has no record of the name returns the not-found failure and     *)
(* sends no write; the sheet is as it was, and the localStorage value is  *)
(* as it was except that an absent value has become the seed.             *)
C8_UpdateNotFound ==
    (ServiceDecided("update") /\ ev.op.name \notin Names(ListRead(ev.before)))
        => /\ NotFoundReturned
           /\ sheet = ev.before.sheet
           /\ localStorage = IF backend = "local" /\ ev.before.ls = LsNull
                             THEN JSONstringify(SEED_DATA)
                             ELSE ev.before.ls

C8_Witness ==
    /\ ServiceDecided("update") /\ ev.op.name \notin Names(ListRead(ev.before))
    /\ NotFoundReturned
    /\ ev.before.ls = LsNull
    /\ localStorage = JSONstringify(SEED_DATA)

DeleteSucceeded ==
    /\ ev.type = "backend"
    /\ ev.op.kind = "delete"
    /\ ev.env.success

RemovedOne(old, new, name) ==
    \E k \in 1..Len(old) :
        /\ old[k].CompanyName = name
        /\ new = SubSeq(old, 1, k - 1) \o SubSeq(old, k + 1, Len(old))

(* C9: a successful deleteVendor that no other operation overlaps leaves  *)
(* the stored records as they were but for one record of that name, which *)
(* is gone.                                                               *)
C9_DeleteRemovesOne ==
    (DeleteSucceeded /\ ~ev.op.ovl)
        => RemovedOne(ListRead(ev.before), StoredRecords(Snapshot), ev.op.name)

(* C10, as stated: deleteVendor called when no stored record has the name *)
(* returns a failure, sends no write and leaves the sheet and the         *)
(* localStorage value as they were.                                       *)
C10_AsStated ==
    (ServiceDecided("delete") /\ ev.op.name \notin Names(StoredRecords(ev.before)))
        => /\ ev.type = "backend" /\ ~ev.env.success /\ ops[ev.slot] = IdleOp
           /\ sheet = ev.before.sheet
           /\ localStorage = ev.before.ls

(* C10, amended: deleteVendor called when the list the backend reads (the *)
(* stored records, or the seed when the local value is absent or does not *)
(* parse) has no record of the name returns a failure and sends no write; *)
(* the sheet is as it was, and the localStorage value is as it was except *)
(* that an absent value has become the seed.                              *)
C10_DeleteNotFound ==
    (ServiceDecided("delete") /\ ev.op.name \notin Names(ListRead(ev.before)))
        => /\ ev.type = "backend" /\ ~ev.env.success /\ ops[ev.slot] = IdleOp
           /\ sheet = ev.before.sheet
           /\ localStorage = IF backend = "local" /\ ev.before.ls = LsNull
                             THEN JSONstringify(SEED_DATA)
                             ELSE ev.before.ls

C10_Witness ==
    /\ ServiceDecided("delete") /\ ev.op.name \notin Names(ListRead(ev.before))
    /\ ev.type = "backend" /\ ~ev.env.success
    /\ ev.before.ls = LsNull
    /\ localStorage = JSONstringify(SEED_DATA)

LocalAddReturned == ev.type = "backend" /\ backend = "local" /\ ev.op.kind = "add"

(* What fetchVendors would have returned from the store before the step. *)
FetchBefore == LocalFetchVendors(ev.before.ls, "ok").env

UpdateSucceeded ==
    /\ ev.type = "backend"
    /\ ev.op.kind = "update"
    /\ ev.env.success

Renaming == ev.op.vendor.CompanyName # ev.op.name

(* The sheet's header row is the six column names in the order of the     *)
(* rows the service writes.                                               *)
CanonicalHeader(sh) == Len(sh) >= 1 /\ sh[1] = HEADERS

(* C12, as stated: after a successful updateVendor whose record carries   *)
(* another name than originalName, a following fetchVendors returns no    *)
(* record named originalName and returns a record equal to the one given. *)
C12_AsStated ==
    (UpdateSucceeded /\ Renaming) =>
        /\ \A k \in 1..Len(FetchNow.data) :
              FetchNow.data[k].CompanyName # ev.op.name
        /\ \E k \in 1..Len(FetchNow.data) : FetchNow.data[k] = ev.op.vendor

(* C12, amended: after a successful updateVendor that no other operation  *)
(* overlaps, a following fetchVendors returns as many records as before,  *)
(* all but the first one named originalName unchanged; on the local       *)
(* backend, and on the remote one when the header row is the six column   *)
(* names in writing order, that first one is now equal to the record      *)
(* given, so when the names differ a record equal to the one given is     *)
(* returned, and no record named originalName is returned if only one     *)
(* carried that name before.                                              *)
C12_UpdateReplacesFirst ==
    (UpdateSucceeded /\ ~ev.op.ovl) =>
        LET old == ListRead(ev.before)
            new == FetchNow.data
            k == FindIndex(old, ev.op.name) + 1
            once == Cardinality({j \in 1..Len(old) :
                                   old[j].CompanyName = ev.op.name}) = 1
        IN /\ k >= 1
           /\ Len(new) = Len(old)
           /\ \A j \in 1..Len(old) : j # k => new[j] = old[j]
           /\ (backend = "local" \/ CanonicalHeader(ev.before.sheet)) =>
                 /\ new[k] = ev.op.vendor
                 /\ (Renaming /\ once) =>
                       \A j \in 1..Len(new) : new[j].CompanyName # ev.op.name

C12_Witness ==
    /\ UpdateSucceeded /\ ~ev.op.ovl /\ Renaming
    /\ backend = "sheets" /\ CanonicalHeader(ev.before.sheet)
    /\ \E k \in 1..Len(ListRead(ev.before)) :
          ListRead(ev.before)[k].CompanyName = ev.op.name
    /\ \A k \in 1..Len(FetchNow.data) : FetchNow.data[k].CompanyName # ev.op.name
    /\ \E k \in 1..Len(FetchNow.data) : FetchNow.data[k] = ev.op.vendor

(* The GET of a refresh was answered with the rows of the sheet. *)
SheetsRefreshAnswered ==
    /\ ev.type = "refresh"
    /\ backend = "sheets"
    /\ ev.fault = "ok"

(* C13: remote fetchVendors answered with zero rows or with the header    *)
(* row alone returns success with an empty list.                          *)
C13_HeaderOnlyIsEmpty ==
    (SheetsRefreshAnswered /\ Len(ev.op.rsp.values) <= 1) =>
        /\ ev.env.success
        /\ HasData(ev.env)
        /\ ev.env.data = <<>>
        /\ vendors = <<>>

C13_Witness ==
    /\ SheetsRefreshAnswered
    /\ Len(ev.op.rsp.values) = 1
    /\ ev.op.rsp.values[1] = HEADERS
    /\ ev.env = Success(<<>>)

RemoteAdd == backend = "sheets" /\ ev.op.kind = "add"

(* The one row addVendor is to send: the six fields in the fixed order,   *)
(* the number as JSON writes it.                                          *)
AppendOf(v) ==
    [method |-> "append", first |-> 0,
     values |-> << <<v.CompanyName, v.BusinessType, v.Products,
                     NumToStr(v.YearsInBusiness), v.OnboardingDate,
                     v.AdditionalInfo>> >>]

(* C14: remote addVendor, called, has as its first and only request one   *)
(* append of one row of the six fields in the fixed order, whatever the   *)
(* header row of the sheet; when that request is answered the operation   *)
(* returns, the sheet being the former rows followed by that row if the   *)
(* request worked and untouched if it failed.                             *)
C14_AddAppendsOneRow ==
    /\ (ev.type = "invoke" /\ RemoteAdd) =>
          /\ ops[ev.slot].pc = "svcWrite"
          /\ ops[ev.slot].req = AppendOf(ev.op.vendor)
    /\ \A i \in Slots :
          (backend = "sheets" /\ ops[i].kind = "add") =>
              /\ ops[i].pc \in {"svcWrite", "refRead", "refReadRsp"}
              /\ ops[i].pc = "svcWrite" => ops[i].req = AppendOf(ops[i].vendor)
    /\ (ev.type = "backend" /\ RemoteAdd) =>
          /\ ev.op.pc = "svcWrite"
          /\ ev.op.req = AppendOf(ev.op.vendor)
          /\ sheet = IF ev.fault = "ok"
                     THEN ev.before.sheet \o ev.op.req.values
                     ELSE ev.before.sheet

C14_Witness ==
    /\ ev.type = "backend" /\ RemoteAdd /\ ev.env.success
    /\ ev.before.sheet # <<>>
    /\ ev.before.sheet[1] = SWAPPED_HEADERS
    /\ Len(sheet) = Len(ev.before.sheet) + 1
    /\ sheet[Len(sheet)] = <<"Zeta Corp", "Distributor", "Apparel, Other", "7",
                              "2025-02-02", "note">>

(* fetchVendors of the local service has read the store. *)
LocalRead ==
    /\ ev.type = "refresh"
    /\ backend = "local"
    /\ ev.fault = "ok"

Unseeded(ls) == ls.kind \in {"null", "empty", "garbage"}

(* C15, as stated: a read of a store whose value is absent, empty or      *)
(* unparseable yields the 5 seed records and leaves the seed stored.      *)
C15_AsStated ==
    (LocalRead /\ Unseeded(ev.before.ls)) =>
        /\ ev.env.success
        /\ ev.env.data = SEED_DATA
        /\ localStorage = JSONstringify(SEED_DATA)

(* C15, amended: a read of a store whose value is absent, empty or        *)
(* unparseable yields the 5 seed records; it leaves the seed stored when  *)
(* the value was absent or empty, and leaves an unparseable value as it   *)
(* was.                                                                   *)
C15_SeedOnFirstRead ==
    (LocalRead /\ Unseeded(ev.before.ls)) =>
        /\ ev.env.success
        /\ ev.env.data = SEED_DATA
        /\ Len(ev.env.data) = 5
        /\ vendors = SEED_DATA
        /\ localStorage = IF ev.before.ls.kind = "garbage" THEN ev.before.ls
                          ELSE JSONstringify(SEED_DATA)

C15_Witness ==
    /\ LocalRead
    /\ ev.before.ls = LsGarbage
    /\ ev.env.data = SEED_DATA
    /\ localStorage = LsGarbage

(* The result of a call of a backend operation has reached the hook. *)
ServiceReturned == ev.type \in {"backend", "refresh"}

(* C17: whatever goes wrong in a backend operation (a non-OK status, a   *)
(* rejected fetch, a body that does not parse, a storage access that      *)
(* throws, a stored value that is no list), the operation returns an      *)
(* envelope with success false and the message of the error; it never     *)
(* rejects.                                                               *)
C17_NoFaultEscapes ==
    ServiceReturned =>
        /\ ~IsRejected(ev.env)
        /\ ev.resolved # "rejected"
        /\ ev.env.success \in BOOLEAN
        /\ ev.fault # "ok" =>
              /\ ~ev.env.success
              /\ ev.env.error \notin {Undefined, Null}
              /\ ev.fault # "throwEmpty" => ev.env.error # ""
        /\ (ev.type = "backend" /\ ev.before.ls = LsJsonNull /\ backend = "local") =>
              (~ev.env.success /\ Truthy(ev.env.error))
        /\ ~ev.env.success => ev.env.error \notin {Undefined, Null}

C17_Witness ==
    /\ ServiceReturned
    /\ ev.fault = "badBody"
    /\ ev.op.kind = "delete"
    /\ ~ev.env.success
    /\ ev.env.error = "Failed to fetch existing data for deletion"
    /\ ev.resolved = "false"

NameKey(name) == Trim(ToLowerCase(name))

NamesUnique(list) ==
    \A j, k \in 1..Len(list) :
        j # k => NameKey(list[j].CompanyName) # NameKey(list[k].CompanyName)

(* C20: from a store whose company names are pairwise distinct ignoring   *)
(* case and surrounding white space, whatever is submitted through the    *)
(* onboarding form and the update form, the stored records keep pairwise  *)
(* distinct names ignoring case and surrounding white space.              *)
C20_FormsKeepNamesUnique == NamesUnique(StoredRecords(Snapshot))

----------------------------------------------------------------------------
(* Properties of the factory and of the conversions *)

ServiceCreated == pure.of = "env" /\ pure.trace = <<"createVendorService">>

Present(x) == x # Undefined /\ x # ""

(* C16: createVendorService gives the Google Sheets backend exactly when  *)
(* the API key and the spreadsheet id are both present and not empty, and *)
(* the localStorage backend otherwise, whatever the worksheet name; the   *)
(* Sheets backend is given the configured worksheet name, or Vendors when *)
(* none is set.                                                           *)
C16_BackendChoice ==
    ServiceCreated =>
        /\ pure.res.kind = IF Present(pure.arg.apiKey) /\ Present(pure.arg.spreadsheetId)
                           THEN "sheets" ELSE "local"
        /\ pure.res.kind = "sheets" =>
              /\ pure.res.apiKey = pure.arg.apiKey
              /\ pure.res.spreadsheetId = pure.arg.spreadsheetId
              /\ pure.res.worksheetName =
                    IF Present(pure.arg.worksheetName) THEN pure.arg.worksheetName
                    ELSE "Vendors"
        /\ \A w \in {Undefined, "", "Suppliers"} :
              createVendorService([pure.arg EXCEPT !.worksheetName = w]).kind
                  = pure.res.kind

C16_Witness ==
    /\ ServiceCreated
    /\ pure.arg.apiKey = "AIza-key" /\ pure.arg.spreadsheetId = "sheet-id"
    /\ pure.arg.worksheetName = Undefined
    /\ pure.res.kind = "sheets"
    /\ pure.res.worksheetName = "Vendors"

FormRoundTrip ==
    /\ pure.of = "form"
    /\ pure.trace = <<"formDataToVendor", "vendorToFormData">>

VendorRoundTrip ==
    /\ pure.of = "vendor"
    /\ pure.trace = <<"vendorToFormData", "formDataToVendor">>

(* C18: for every edit-form record whose products are distinct values of *)
(* the product list, whatever its business type, converting it to a       *)
(* vendor and back gives the record again with companyName and            *)
(* additionalInfo trimmed.                                                *)
C18_FormRoundTrip ==
    FormRoundTrip =>
        /\ pure.res.companyName = Trim(pure.arg.companyName)
        /\ pure.res.additionalInfo = Trim(pure.arg.additionalInfo)
        /\ pure.res.businessType = pure.arg.businessType
        /\ pure.res.products = pure.arg.products
        /\ pure.res.yearsInBusiness = pure.arg.yearsInBusiness
        /\ pure.res.onboardingDate = pure.arg.onboardingDate
        /\ DOMAIN pure.res = DOMAIN pure.arg

C18_Witness ==
    /\ FormRoundTrip
    /\ pure.arg.companyName = " Acme Retail\t"
    /\ pure.res.companyName = "Acme Retail"
    /\ pure.arg.businessType = ""
    /\ pure.arg.products = <<"Software", "Electronics">>
    /\ pure.res.products = <<"Software", "Electronics">>
    /\ pure.res.additionalInfo = "first choice"

(* C19: for every storage-form record whose Products is a list of product *)
(* values joined by a comma and a blank, possibly empty, converting it to  *)
(* form data and back gives the record again with CompanyName and          *)
(* AdditionalInfo trimmed.                                                 *)
C19_VendorRoundTrip ==
    VendorRoundTrip =>
        /\ pure.res.CompanyName = Trim(pure.arg.CompanyName)
        /\ pure.res.AdditionalInfo = Trim(pure.arg.AdditionalInfo)
        /\ pure.res.BusinessType = pure.arg.BusinessType
        /\ pure.res.Products = pure.arg.Products
        /\ pure.res.YearsInBusiness = pure.arg.YearsInBusiness
        /\ pure.res.OnboardingDate = pure.arg.OnboardingDate
        /\ DOMAIN pure.res = DOMAIN pure.arg

C19_Witness ==
    /\ VendorRoundTrip
    /\ pure.arg.Products = "Apparel, Other"
    /\ pure.res.Products = "Apparel, Other"
    /\ pure.arg.CompanyName = " Acme Retail\t"
    /\ pure.res.CompanyName = "Acme Retail"
    /\ pure.arg.AdditionalInfo = " first choice \n"
    /\ pure.res.AdditionalInfo = "first choice"

----------------------------------------------------------------------------
(* Properties of the remote update and delete *)

RemoteUpdate == backend = "sheets" /\ ev.op.kind = "update"

(* The zero-based position of the first record of the name among the data *)
(* rows of a sheet, the header read as the service reads it.               *)
OffsetIn(sh, name) ==
    LET data == [k \in 1..(Len(sh) - 1) |-> RowToVendor(sh[1], sh[k + 1])]
    IN (CHOOSE k \in 1..Len(data) :
           /\ data[k].CompanyName = name
           /\ \A m \in 1..(k - 1) : data[m].CompanyName # name) - 1

SixCells(v) ==
    <<v.CompanyName, v.BusinessType, v.Products, NumToStr(v.YearsInBusiness),
      v.OnboardingDate, v.AdditionalInfo>>

(* C23: remote updateVendor, having read the table and found the name,    *)
(* sends one PUT for the one row offset + 2, offset being the position of  *)
(* the first record of the name in the rows it read, with the six fields   *)
(* in the fixed order; answered OK, the sheet differs from what it was in  *)
(* that row alone, which holds the six cells; answered otherwise, or the   *)
(* name not being found, the sheet is as it was; the operation then goes   *)
(* on to the refresh and writes nothing more.                              *)
C23_UpdateWritesOneRow ==
    /\ (ev.type = "located" /\ RemoteUpdate) =>
          /\ ops[ev.slot].pc = "svcWrite"
          /\ ops[ev.slot].req =
                [method |-> "put",
                 first |-> OffsetIn(ev.before.sheet, ev.op.name) + 2,
                 values |-> <<SixCells(ev.op.vendor)>>]
          /\ sheet = ev.before.sheet
    /\ (ev.type = "backend" /\ RemoteUpdate) =>
          /\ ops[ev.slot].pc # "svcWrite"
          /\ IF ev.op.pc = "svcWrite" /\ ev.fault = "ok"
             THEN LET r == ev.op.req.first IN
                  /\ r >= 2 /\ r <= Len(ev.before.sheet)
                  /\ Len(sheet) = Len(ev.before.sheet)
                  /\ \A k \in 1..Len(sheet) : k # r => sheet[k] = ev.before.sheet[k]
                  /\ sheet[r] = TrimRow(SixCells(ev.op.vendor))
                  /\ Len(sheet[r]) <= 6
             ELSE sheet = ev.before.sheet
    /\ \A i \in Slots :
          (backend = "sheets" /\ ops[i].kind = "update" /\ ops[i].pc = "svcWrite") =>
              /\ ops[i].req.method = "put"
              /\ Len(ops[i].req.values) = 1
              /\ ops[i].req.values[1] = SixCells(ops[i].vendor)

C23_Witness ==
    /\ ev.type = "backend" /\ RemoteUpdate /\ ev.env.success
    /\ ev.before.sheet = SheetOf(<<VA, VA2>>)
    /\ ev.op.name = "Acme Electronics"
    /\ ev.op.req.first = 2
    /\ sheet[2] = <<"Zeta Corp", "Distributor", "Apparel, Other", "7",
                    "2025-02-02", "note">>
    /\ sheet[3] = ev.before.sheet[3]
    /\ Len(sheet) = 3

(* C24: after a successful remote deleteVendor that nothing overlaps, the  *)
(* sheet is the canonical header row followed by the rows of the records   *)
(* that survive and nothing else, and a following fetchVendors returns the *)
(* list a fetch returned before without the records of that name.          *)
C24_DeleteRewritesTable ==
    (DeleteSucceeded /\ backend = "sheets" /\ ~ev.op.ovl) =>
        LET old == SheetsFetchVendors([fault |-> "ok", values |-> ev.before.sheet]).data
            kept == FilterOut(old, ev.op.name)
        IN /\ Len(sheet) = Len(kept) + 1
           /\ sheet[1] = HEADERS
           /\ \A k \in 1..Len(kept) : sheet[k + 1] = TrimRow(SixCells(kept[k]))
           /\ FetchNow.data = kept

TextFields == {"CompanyName", "BusinessType", "Products", "OnboardingDate",
               "AdditionalInfo"}

(* The cell of a row under the header of a name, empty when the row stops *)
(* before it or no header has the name.                                    *)
CellUnder(headers, row, name) ==
    IF \E j \in 1..Len(headers) : headers[j] = name
    THEN LET j == CHOOSE m \in 1..Len(headers) :
                     /\ headers[m] = name
                     /\ \A n \in (m + 1)..Len(headers) : headers[n] # name
         IN IF j <= Len(row) THEN row[j] ELSE ""
    ELSE ""

(* C25: remote fetchVendors answered with a header row and data rows      *)
(* returns one record per data row, each text field holding the cell under *)
(* the header of its name, in whatever order the headers are, and the      *)
(* empty string when the row is shorter or no header has that name;        *)
(* YearsInBusiness holds the number in its cell, and 0 when there is none. *)
C25_FieldsByHeader ==
    (SheetsRefreshAnswered /\ Len(ev.op.rsp.values) > 1) =>
        LET rows == ev.op.rsp.values IN
        /\ ev.env.success
        /\ Len(ev.env.data) = Len(rows) - 1
        /\ \A k \in 1..Len(ev.env.data) :
              /\ \A f \in TextFields :
                    ev.env.data[k][f] = CellUnder(rows[1], rows[k + 1], f)
              /\ ev.env.data[k].YearsInBusiness =
                    ToNumberOrZero(CellUnder(rows[1], rows[k + 1], "YearsInBusiness"))

(* C30: on both backends a successful updateVendor leaves as many records *)
(* as there were (the records the backend reads: on the local backend an   *)
(* absent or unparseable value is read as the seed), changes no record but *)
(* the one at the position it located, which is the first one of the name  *)
(* when nothing overlapped the operation, and leaves every other record at *)
(* its position with all its fields; on the remote backend no row of the   *)
(* sheet but that one is changed.                                          *)
C30_UpdateFrame ==
    UpdateSucceeded =>
        LET old == ListRead(ev.before)
            new == StoredRecords(Snapshot)
            k == IF backend = "sheets" THEN ev.op.req.first - 1
                 ELSE FindIndex(old, ev.op.name) + 1
        IN /\ Len(new) = Len(old)
           /\ k \in 1..Len(old)
           /\ \A j \in 1..Len(old) :
                 j # k => /\ new[j] = old[j]
                          /\ DOMAIN new[j] = DOMAIN old[j]
           /\ ~ev.op.ovl => k = FindIndex(old, ev.op.name) + 1
           /\ backend = "sheets" =>
                 /\ Len(sheet) = Len(ev.before.sheet)
                 /\ \A r \in 1..Len(sheet) :
                       r # k + 1 => sheet[r] = ev.before.sheet[r]
           /\ backend = "local" => new[k] = ev.op.vendor

C30_Witness ==
    /\ UpdateSucceeded
    /\ backend = "local"
    /\ ev.before.ls = JSONstringify(<<VA, VA2>>)
    /\ ev.op.name = "Acme Electronics"
    /\ localStorage = JSONstringify(<<VB, VA2>>)

----------------------------------------------------------------------------
(* Properties of two clients of one sheet *)

OtherClient(c) == CHOOSE d \in Clients : d # c

(* The PUT of an updateVendor or deleteVendor of a client was handled. *)
SnapshotWritten ==
    /\ ev.type = "wrote"
    /\ ev.fault = "ok"
    /\ clients[ev.slot].kind \in {"update", "delete"}

(* The request the service builds from the rows it read. *)
RequestFrom(o) ==
    IF o.kind = "update"
    THEN SheetsUpdateStep([fault |-> "ok", values |-> o.seen], o.name, o.vendor).req
    ELSE SheetsDeleteStep([fault |-> "ok", values |-> o.seen], o.name).req

(* C21: the PUT of updateVendor and of deleteVendor carries the rows built *)
(* from the table the call read and nothing that tells the table's version; *)
(* whatever the other client committed between that read and the write,    *)
(* the call returns success and the rows it addresses hold what the call   *)
(* built from its snapshot, every other row being left as it was.  So the  *)
(* interleaving exists in which a committed change of the other client is  *)
(* overwritten while both calls return success (C21_Witness).              *)
C21_WritesFromSnapshot ==
    SnapshotWritten =>
        LET o == clients[ev.slot]
            last == o.req.first + Len(o.req.values) - 1
        IN /\ o.result.success
           /\ o.req = RequestFrom(o)
           /\ Len(sheet) = Max(Len(ev.before.sheet), last)
           /\ \A r \in 1..Len(sheet) :
                 sheet[r] = IF r >= o.req.first /\ r <= last
                            THEN TrimRow(o.req.values[r - o.req.first + 1])
                            ELSE ev.before.sheet[r]

C21_Witness ==
    /\ SnapshotWritten
    /\ LET o == clients[ev.slot]
           p == clients[OtherClient(ev.slot)]
       IN /\ o.kind = "delete" /\ o.result.success
          /\ p.kind = "update" /\ p.pc = "done" /\ p.result.success
          /\ o.missed = <<p.req>>
          /\ ev.before.sheet[p.req.first] = p.req.values[1]
          /\ \A r \in 1..Len(sheet) : sheet[r] # p.req.values[1]
          /\ sheet[p.req.first] = o.seen[p.req.first]

----------------------------------------------------------------------------
(* Properties of the delete view *)

DeleteAwaited == ev.slot \in ev.before.view.awaiting

DeleteFailedInView ==
    /\ ev.type = "backend" /\ ev.op.kind = "delete" /\ ~ev.env.success
    /\ DeleteAwaited

DeleteDoneInView ==
    /\ ev.type = "refresh" /\ ev.op.kind = "delete"
    /\ DeleteAwaited

(* C22: in the delete view the hook's deleteVendor is invoked only from    *)
(* the confirmation, for the vendor that is selected and whose deletion    *)
(* the user has requested since selecting it and not cancelled; no other   *)
(* mutation is invoked; choosing another vendor or cancelling closes the   *)
(* confirmation, so an open confirmation is always for the selected        *)
(* vendor; a deletion that fails leaves the selection and the confirmation *)
(* as they are (open, for that vendor and on display, when nothing         *)
(* overlapped the deletion); a deletion that succeeds resets both.         *)
C22_ConfirmedDeletesOnly ==
    /\ \A i \in Slots : ops[i].kind \in {"idle", "refresh", "delete"}
    /\ (ev.type = "invoke" /\ ev.op.kind # "refresh") =>
          /\ ev.op.kind = "delete"
          /\ Truthy(ev.op.name)
          /\ ev.op.name = ev.before.view.selectedVendor
          /\ ev.op.name = ev.before.view.asked
          /\ ev.before.view.showConfirm
          /\ \E k \in 1..Len(vendors) : vendors[k].CompanyName = ev.op.name
          /\ ev.slot \in view.awaiting
    /\ ev.type \in {"select", "cancel"} => (~view.showConfirm /\ view.asked = Null)
    /\ ev.type = "select" => view.selectedVendor # ev.before.view.selectedVendor
    /\ view.showConfirm => (Truthy(view.asked) /\ view.asked = view.selectedVendor)
    /\ DeleteFailedInView =>
          /\ view.selectedVendor = ev.before.view.selectedVendor
          /\ view.showConfirm = ev.before.view.showConfirm
          /\ ~ev.op.ovl =>
                /\ view.selectedVendor = ev.op.name
                /\ view.showConfirm
                /\ vendorDetails
    /\ DeleteDoneInView =>
          /\ view.selectedVendor = ""
          /\ ~view.showConfirm

C22_Witness ==
    /\ DeleteFailedInView
    /\ ~ev.op.ovl
    /\ ev.op.name = "Acme Electronics"
    /\ view.selectedVendor = "Acme Electronics"
    /\ view.showConfirm /\ vendorDetails
    /\ alert.type = "error"

====
